---- MODULE Spec2Model ----
(***************************************************************************)
(* Meter Bill Manager: the analysis orchestrator of App.tsx, the           *)
(* extraction client of services/geminiService.ts (second revision in the  *)
(* file: compressImage, generateContentWithRetry, analyzeMeterImage), the  *)
(* reading editor of components/AnalysisResults.tsx and the invoice        *)
(* arithmetic and share link of components/Invoice.tsx.                    *)
(*                                                                         *)
(* Numbers.  Meter values and usage are decimal fixed point in thousandths *)
(* (1234 is 1.234), so that the rounding of toFixed(2) is a real           *)
(* operation; money is whole won.  The binary representation error of a    *)
(* JavaScript double is not modelled.                                      *)
(*                                                                         *)
(* Strings.  A string that travels through the share link is a sequence    *)
(* of tokens: a token is one character or a run of unreserved characters   *)
(* (letters, digits, '-').  Error texts are TLA+ strings together with the *)
(* set of markers they contain, which is all the code asks of them.        *)
(***************************************************************************)
EXTENDS Integers, Sequences, FiniteSets, TLC

VARIABLES
    tenants,        \* App: useState<Tenant[]>
    unitPrice,      \* App: useState<number>
    items,          \* App: useState<AnalysisItem[]>
    isAnalyzingAll, \* App: useState(false)
    activeTab,      \* App: 'analysis' | 'invoice'
    isSharedView,   \* App: useState(false)
    view,           \* what the last render showed: the closure the handlers run in
    reqs,           \* analyzeItem calls awaiting analyzeMeterImage
    batch,          \* the requests handleAnalyzeAll's Promise.all still awaits
    started,        \* the ids of idleItems, while handleAnalyzeAll awaits
    settled,        \* the analyzeMeterImage call that settled since the last render
    nextId,         \* ids handed out by handleImagesSelect so far
    nextRid,        \* analyzeItem calls made so far
    apiKey,         \* what getApiKey() returns in this build
    link,           \* the share link last made, with the invoice it was made of
    alert,          \* the text of window.alert, if the page raised one
    image,          \* geminiService: the image compressImage or createThumbnail works on
    isProcessing,   \* Invoice: useState(false)
    toastMsg,       \* Invoice: useState<string | null>(null)
    exports         \* Invoice: the export operations awaiting html2canvas and the rest

vars == <<tenants, unitPrice, items, isAnalyzingAll, activeTab, isSharedView,
          view, reqs, batch, started, settled, nextId, nextRid, apiKey, link, alert, image,
          isProcessing, toastMsg, exports>>

\* The state of the Invoice component
exporting == <<isProcessing, toastMsg, exports>>

----------------------------------------------------------------------------
(* Bounds of the model *)

\* Items on the page at once, and analyzeItem calls in one behaviour.
MaxItems == 2
MaxCalls == 3

\* Tokens in a tenant name the user types.
MaxNameLen == 2

\* Export operations of the Invoice component in flight at a time
MaxExports == 2

----------------------------------------------------------------------------
(* Values *)

Undefined == [undefined |-> TRUE]
NoError == "undefined"

\* toastMsg when no toast is shown
NoToast == "null"

Range(s) == {s[k] : k \in DOMAIN s}

RECURSIVE SeqFilter(_, _)
SeqFilter(s, keep) ==
    IF s = <<>> THEN <<>>
    ELSE IF Head(s) \in keep THEN <<Head(s)>> \o SeqFilter(Tail(s), keep)
    ELSE SeqFilter(Tail(s), keep)

DEFAULT_TENANTS ==
    << [id |-> "t1", name |-> <<"A", " ", "Corp">>,
        meters |-> << <<"1F", " ", "Main">>, <<"1F", " ", "Server">>, <<"1F", " ", "AC">> >>],
       [id |-> "t2", name |-> <<"B", " ", "Corp">>,
        meters |-> << <<"2F", " ", "Office">>, <<"2F", " ", "Kitchen">> >>],
       [id |-> "t3", name |-> <<"C", " ", "Corp">>,
        meters |-> << <<"3F", " ", "Lab">>, <<"3F", " ", "Warehouse">>, <<"Basement">> >>] >>

DefaultUnitPrice == 150

UploadedFile == [name |-> "meter.png", size |-> 1]

----------------------------------------------------------------------------
(* Usage arithmetic *)

Abs(x) == IF x < 0 THEN -x ELSE x

\* Number.prototype.toFixed(2) followed by parseFloat, on a value >= 0 in
\* thousandths: the nearest hundredth, the larger one on a tie.
ToFixed2(x) == ((x + 5) \div 10) * 10

\* Faulty variant: the difference without Math.abs.
ComputeUsageSigned(startVal, endVal) == ToFixed2(endVal - startVal)

\* NaN, which Number() makes of a value that is missing or not numeric; no
\* reading of the model is negative, and arithmetic on NaN gives NaN.
NaN == 0 - 1000000

IsNaN(x) == x = NaN

ComputeUsage(startVal, endVal) ==
    IF IsNaN(startVal) \/ IsNaN(endVal) THEN NaN ELSE ToFixed2(Abs(endVal - startVal))

----------------------------------------------------------------------------
(* The inference provider: what ai.models.generateContent answers *)

\* Readings the model may report (thousandths).
Date1 == <<"2024-01-01", " ", "00", ":", "00">>
Date2 == <<"2024-02-01", " ", "00", ":", "00">>

Reading(d, v) == [date |-> d, value |-> v]

JsonReply(s, e) == [text |-> "json", startReading |-> s, endReading |-> e]

ValidReplies ==
    { JsonReply(Reading(Date1, 694957700), Reading(Date2, 705310200)),
      JsonReply(Reading(Date1, 1236), Reading(Date2, 0)),
      JsonReply(Reading(Date1, 100), Reading(Date2, 1334)) }

MalformedReplies ==
    { [text |-> "empty"],
      [text |-> "notjson"],
      JsonReply(Undefined, Reading(Date2, 1334)),
      JsonReply([date |-> Date1], Reading(Date2, 1334)) }

Replies == ValidReplies \cup MalformedReplies

QuotaJson == "{\"error\":{\"code\":429,\"message\":\"Resource has been exhausted (e.g. check quota).\",\"status\":\"RESOURCE_EXHAUSTED\"}}"

\* text.toLowerCase().includes(marker), for the texts of the model.
MarkersIn(text) ==
    CASE text = QuotaJson -> {"429", "quota", "exhausted"}
      [] text = "Resource has been exhausted (e.g. check quota)." -> {"quota", "exhausted"}
      [] text = "Too Many Requests" -> {"too many requests"}
      [] text = "models/gemini-3-flash-preview is not found" -> {"not found"}
      [] text = "API Key is missing" -> {"api key is missing"}
      [] OTHER -> {}

\* A thrown value: class is what the provider means by it, status and name are
\* the enumerable fields of the SDK's ApiError, message is enumerable only on a
\* plain object.
Err(class, status, enumerableMessage, message) ==
    [class |-> class, status |-> status,
     enumerableMessage |-> enumerableMessage, message |-> message]

RateLimitErrors ==
    { Err("rate-limit", 429, FALSE, QuotaJson),
      Err("rate-limit", 429, FALSE, "Rate limit reached"),
      Err("rate-limit", 0, TRUE, "Too Many Requests") }

OtherErrors ==
    { Err("bad-request", 400, FALSE, "Invalid argument"),
      Err("not-found", 404, FALSE, "models/gemini-3-flash-preview is not found"),
      Err("unknown", 0, FALSE, "") }

\* The provider is overloaded: HTTP 503, no quota marker in the error
OverloadedErrors ==
    { Err("overloaded", 503, FALSE, "The model is overloaded. Please try again later.") }

ProviderErrors == RateLimitErrors \cup OtherErrors \cup OverloadedErrors

\* JSON.stringify(error).toLowerCase().includes(marker)
StringifyMarkers(error) ==
    (IF error.status = 429 THEN {"429"} ELSE IF error.status = 404 THEN {"404"} ELSE {})
    \cup (IF error.enumerableMessage THEN MarkersIn(error.message) ELSE {})

----------------------------------------------------------------------------
(* services/geminiService.ts *)

Retries == 3
InitialDelay == 2000

\* Faulty variant: a delay that grows by initialDelay.
NextDelayLinear(currentDelay) == currentDelay + InitialDelay

\* currentDelay *= 2
NextDelay(currentDelay) == currentDelay * 2

\* Faulty variant: every error is taken for a quota error.
IsQuotaErrorAlways(error) == TRUE

IsQuotaError(error) ==
    StringifyMarkers(error) \cap {"429", "quota", "exhausted", "too many requests"} # {}

\* Faulty variant: a loop that never goes round again.
ShouldRetryNever(error, i) == FALSE

\* The catch of the retry loop: wait and go round again, or rethrow.
ShouldRetry(error, i) == IsQuotaError(error) /\ i < Retries

\* An Error made by the code itself.
InternalError(message) == Err("internal", 0, FALSE, message)

\* Number(reading.value)
NumberOf(reading) == IF "value" \in DOMAIN reading THEN reading.value ELSE NaN

\* The body of analyzeMeterImage's try after the response: a result or a throw.
ParseReply(reply) ==
    IF reply.text = "empty"
    THEN [ok |-> FALSE, error |-> InternalError("No response from Gemini.")]
    ELSE IF reply.text = "notjson"
    THEN [ok |-> FALSE, error |-> InternalError("AI response was not valid JSON.")]
    ELSE IF reply.startReading = Undefined \/ reply.endReading = Undefined
    THEN [ok |-> FALSE,
          error |-> InternalError("Cannot read properties of undefined (reading 'value')")]
    ELSE LET startVal == NumberOf(reply.startReading)
             endVal == NumberOf(reply.endReading)
         IN  [ok |-> TRUE,
              result |-> [startReading |-> [date |-> reply.startReading.date,
                                            value |-> startVal],
                          endReading |-> [date |-> reply.endReading.date,
                                          value |-> endVal],
                          usage |-> ComputeUsage(startVal, endVal)]]

\* The message taken out of a JSON error text, else the text itself.
ExtractMessage(message) ==
    IF message = QuotaJson THEN "Resource has been exhausted (e.g. check quota)."
    ELSE message

MsgKeyMissing == "Setup Error: Key not found. Please rename your Vercel Environment Variable to 'VITE_API_KEY' and Redeploy."
MsgBusy == "Server is busy (Quota Limit). Please try again in 1 minute."
MsgModelUnavailable == "AI Model unavailable. Please contact support or try again later."

\* Faulty variant: the catch rethrows the message as it is.
MapErrorRaw(error) ==
    IF error.message = "" THEN "Failed to analyze the image." ELSE error.message

\* The catch of analyzeMeterImage: the message of the Error it throws.
MapError(error) ==
    LET errorMessage == ExtractMessage(IF error.message = ""
                                       THEN "Failed to analyze the image."
                                       ELSE error.message)
        lowerMsg == MarkersIn(errorMessage)
    IN  IF "api key is missing" \in lowerMsg THEN MsgKeyMissing
        ELSE IF lowerMsg \cap {"429", "quota", "exhausted"} # {} THEN MsgBusy
        ELSE IF lowerMsg \cap {"404", "not found"} # {} THEN MsgModelUnavailable
        ELSE errorMessage

----------------------------------------------------------------------------
(* App.tsx: the items collection *)

NewItem(id, file) ==
    [id |-> id, file |-> file, status |-> "idle", result |-> Undefined,
     error |-> NoError, assignment |-> [tenantId |-> "", meterName |-> <<>>],
     isShared |-> FALSE]

Ids(its) == {its[k].id : k \in DOMAIN its}

\* Faulty variant: the first setItems of analyzeItem without 'error: undefined'.
MarkAnalyzingKeepingError(its, id) ==
    [k \in DOMAIN its |->
        IF its[k].id = id THEN [its[k] EXCEPT !.status = "analyzing"] ELSE its[k]]

\* Faulty variant: analyzeItem without its first setItems.
MarkAnalyzingNot(its, id) == its

\* prev.map(i => i.id === id ? f(i) : i), for the updates below
MarkAnalyzing(its, id) ==
    [k \in DOMAIN its |->
        IF its[k].id = id
        THEN [its[k] EXCEPT !.status = "analyzing", !.error = NoError]
        ELSE its[k]]

\* Faulty variant: a settlement that adds the item when its id is gone.
SettleSuccessUpsert(its, id, result) ==
    IF id \in Ids(its)
    THEN [k \in DOMAIN its |->
            IF its[k].id = id
            THEN [its[k] EXCEPT !.status = "success", !.result = result]
            ELSE its[k]]
    ELSE Append(its, [NewItem(id, UploadedFile) EXCEPT !.status = "success",
                                                      !.result = result])

\* Faulty variant: a success that also takes the error off every other item.
SettleSuccessClearing(its, id, result) ==
    [k \in DOMAIN its |->
        IF its[k].id = id
        THEN [its[k] EXCEPT !.status = "success", !.result = result]
        ELSE [its[k] EXCEPT !.error = NoError]]

SettleSuccess(its, id, result) ==
    [k \in DOMAIN its |->
        IF its[k].id = id
        THEN [its[k] EXCEPT !.status = "success", !.result = result]
        ELSE its[k]]

\* Faulty variant: a failure that puts the item back to idle.
SettleErrorToIdle(its, id, message) ==
    [k \in DOMAIN its |->
        IF its[k].id = id
        THEN [its[k] EXCEPT !.status = "idle",
                            !.error = IF message = "" THEN "Analysis failed" ELSE message]
        ELSE its[k]]

\* Faulty variant: a failure that marks every item that is being analyzed.
SettleErrorEvery(its, id, message) ==
    [k \in DOMAIN its |->
        IF its[k].id = id \/ its[k].status = "analyzing"
        THEN [its[k] EXCEPT !.status = "error",
                            !.error = IF message = "" THEN "Analysis failed" ELSE message]
        ELSE its[k]]

SettleError(its, id, message) ==
    [k \in DOMAIN its |->
        IF its[k].id = id
        THEN [its[k] EXCEPT !.status = "error",
                            !.error = IF message = "" THEN "Analysis failed" ELSE message]
        ELSE its[k]]

UpdateResult(its, id, updatedResult) ==
    [k \in DOMAIN its |->
        IF its[k].id = id THEN [its[k] EXCEPT !.result = updatedResult] ELSE its[k]]

UpdateAssignment(its, id, assignment) ==
    [k \in DOMAIN its |->
        IF its[k].id = id THEN [its[k] EXCEPT !.assignment = assignment] ELSE its[k]]

\* prev.filter((_, i) => i !== index)
RemoveAt(its, index) ==
    [k \in 1..(Len(its) - 1) |-> IF k < index THEN its[k] ELSE its[k + 1]]

\* The guard of analyzeItem, on the item the caller passes.
AnalyzeGuard(item) == ~(item.status = "success" \/ item.status = "analyzing")

\* items.filter(i => i.status === 'idle' || i.status === 'error')
IdleItems(its) ==
    SeqFilter(its, {it \in Range(its) : it.status = "idle" \/ it.status = "error"})

PendingCount(its) == Cardinality({k \in DOMAIN its : its[k].status = "idle"})

\* A call of analyzeItem that has passed the guard and awaits analyzeMeterImage.
NewRequest(rid, item) ==
    [rid |-> rid, id |-> item.id, pc |-> "compress", i |-> 0,
     currentDelay |-> InitialDelay, sent |-> 0, waits |-> <<>>, errors |-> <<>>]

\* analyzeItem up to its await, for each item of a list in turn.
RECURSIVE AnalyzeEach(_, _, _, _)
AnalyzeEach(list, its, rs, rid) ==
    IF list = <<>> THEN [items |-> its, reqs |-> rs, rid |-> rid]
    ELSE IF AnalyzeGuard(Head(list))
    THEN AnalyzeEach(Tail(list), MarkAnalyzing(its, Head(list).id),
                     rs \cup {NewRequest(rid + 1, Head(list))}, rid + 1)
    ELSE AnalyzeEach(Tail(list), its, rs, rid)

Rendered(its, all) == [items |-> its, isAnalyzingAll |-> all]

----------------------------------------------------------------------------
(* App.tsx: invoiceData, and the totals of components/Invoice.tsx *)

Null == [null |-> TRUE]

\* Faulty variant: the cost rounded up to the next won.
CostRoundedUp(usage, price) == (usage * price + 999) \div 1000

\* Math.floor(usage * unitPrice), usage in thousandths and the price in won
Cost(usage, price) ==
    IF IsNaN(usage) THEN NaN
    ELSE (usage \div 1000) * price + ((usage % 1000) * price) \div 1000

\* acc + curr
Plus(acc, curr) == IF IsNaN(acc) \/ IsNaN(curr) THEN NaN ELSE acc + curr

RECURSIVE SumUsage(_)
SumUsage(s) == IF s = <<>> THEN 0 ELSE Plus(SumUsage(Tail(s)), Head(s).result.usage)

RECURSIVE SumCost(_)
SumCost(s) == IF s = <<>> THEN 0 ELSE Plus(SumCost(Tail(s)), Head(s).cost)

\* One tenant's entry of invoiceData, null when nothing is assigned to the tenant
InvoiceOf(tenant, its, price) ==
    LET tenantItems ==
            SeqFilter(its, {it \in Range(its) :
                               /\ it.status = "success"
                               /\ it.result # Undefined
                               /\ it.assignment.tenantId = tenant.id})
        itemsWithCost ==
            [k \in DOMAIN tenantItems |->
                [meterName |-> tenantItems[k].assignment.meterName,
                 result |-> tenantItems[k].result,
                 file |-> tenantItems[k].file,
                 cost |-> Cost(tenantItems[k].result.usage, price),
                 isShared |-> tenantItems[k].isShared]]
    IN  IF tenantItems = <<>> THEN Null
        ELSE [tenant |-> tenant, items |-> itemsWithCost,
              totalUsage |-> SumUsage(itemsWithCost),
              totalCost |-> SumCost(itemsWithCost)]

InvoiceData(ts, its, price) ==
    LET data == [t \in DOMAIN ts |-> InvoiceOf(ts[t], its, price)]
    IN  SeqFilter(data, Range(data) \ {Null})

\* The preview EvidenceItem shows for an item of an invoice: the thumbnail of a
\* shared item, an object URL of the file of an item that has one, else none
EvidencePreview(item) ==
    IF item.isShared /\ "thumbnailUrl" \in DOMAIN item /\ item.thumbnailUrl # <<>>
    THEN item.thumbnailUrl
    ELSE IF ~item.isShared /\ item.file.size > 0
    THEN <<"blob", ":", item.file.name>>
    ELSE <<>>

\* Faulty variant: the tax rounded to the nearest won.
VatRounded(totalCost) == (totalCost + 5) \div 10

\* Math.floor(invoice.totalCost * 0.1)
Vat(totalCost) == IF IsNaN(totalCost) THEN NaN ELSE totalCost \div 10

\* The power of two at or below a positive number
RECURSIVE Binade(_)
Binade(n) == IF n < 2 THEN 1 ELSE 2 * Binade(n \div 2)

\* Math.floor(invoice.totalCost * 1.1) in double arithmetic.  The double 1.1
\* is 1.1 + 0.4 * 2^-52, so the exact product lies 0.4 * |t| * 2^-52 further
\* from zero than 1.1 * t and is then rounded to the nearest double.  That only
\* changes the floor when 1.1 * t is a whole number and t is negative: the
\* product lies below that whole number n, and it is rounded to the double
\* below n, not to n, when 0.4 * |t| * 2^-52 exceeds half the spacing of the
\* doubles at |n|, which is 2^(e-53) for 2^e <= |n| < 2^(e+1): when
\* 4 * |t| > 5 * 2^e.
TotalDue(totalCost) ==
    IF IsNaN(totalCost) THEN NaN
    ELSE IF /\ totalCost < 0
            /\ totalCost % 10 = 0
            /\ 4 * (0 - totalCost) > 5 * Binade(((0 - totalCost) * 11) \div 10)
         THEN (totalCost * 11) \div 10 - 1
         ELSE (totalCost * 11) \div 10

\* (item.result.usage * unitPrice) of a table row, in thousandths of a won
RowAmount(item, price) ==
    IF IsNaN(item.result.usage) THEN NaN ELSE item.result.usage * price

----------------------------------------------------------------------------
(* The state after construction and the user's events.  React renders after *)
(* every event handler, so each of these leaves the view current.           *)

----------------------------------------------------------------------------
(* geminiService: compressImage and createThumbnail.  An image is the       *)
(* width and height of the file, the canvas the function sizes, the object  *)
(* URLs it created and revoked, and how its promise settled.                *)

NoImage ==
    [fn |-> "", width |-> 0, height |-> 0, step |-> "none",
     canvas |-> [width |-> 0, height |-> 0],
     created |-> {}, revoked |-> {}, settled |-> "pending", value |-> ""]

\* Widths and heights of the files
Sides == {1, 119, 120, 121, 240, 1023, 1024, 1025, 2048, 4000}

\* const MAX_SIZE of either function
MAX_SIZE(fn) == IF fn = "compressImage" THEN 1024 ELSE 120

\* Math.round(a / b) of positive numbers
Round(a, b) == (2 * a + b) \div (2 * b)

\* The width and height the onload handler gives the canvas
Resize(width, height, max) ==
    IF width > height /\ width > max
      THEN [width |-> max, height |-> Round(height * max, width)]
      ELSE IF height > width /\ height > max
             THEN [width |-> Round(width * max, height), height |-> max]
             ELSE [width |-> width, height |-> height]

ObjectUrl == "blob:file"

\* new Image(); URL.createObjectURL(file); img.src = url
LoadImage(fn, width, height) ==
    /\ image.step = "none"
    /\ image' = [NoImage EXCEPT !.fn = fn, !.width = width, !.height = height,
                                !.step = "loading", !.created = {ObjectUrl}]
    /\ UNCHANGED <<tenants, unitPrice, items, isAnalyzingAll, activeTab, isSharedView,
                   view, reqs, batch, started, settled, nextId, nextRid, apiKey, link,
                   alert, exporting>>

\* img.onload of compressImage; ctx tells whether getContext('2d') gave a context
CompressImageOnload(ctx) ==
    /\ image.step = "loading" /\ image.fn = "compressImage"
    /\ image' = [image EXCEPT
          !.step = "onload",
          !.canvas = Resize(image.width, image.height, MAX_SIZE("compressImage")),
          !.revoked = image.revoked \cup {ObjectUrl},
          !.settled = IF ctx THEN "resolved" ELSE "rejected",
          !.value = IF ctx THEN "base64" ELSE "Canvas context failed"]
    /\ UNCHANGED <<tenants, unitPrice, items, isAnalyzingAll, activeTab, isSharedView,
                   view, reqs, batch, started, settled, nextId, nextRid, apiKey, link,
                   alert, exporting>>

\* img.onerror of compressImage
CompressImageOnerror ==
    /\ image.step = "loading" /\ image.fn = "compressImage"
    /\ image' = [image EXCEPT
          !.step = "onerror",
          !.revoked = image.revoked \cup {ObjectUrl},
          !.settled = "rejected",
          !.value = "error event"]
    /\ UNCHANGED <<tenants, unitPrice, items, isAnalyzingAll, activeTab, isSharedView,
                   view, reqs, batch, started, settled, nextId, nextRid, apiKey, link,
                   alert, exporting>>

\* img.onload of createThumbnail
CreateThumbnailOnload(ctx) ==
    /\ image.step = "loading" /\ image.fn = "createThumbnail"
    /\ image' = [image EXCEPT
          !.step = "onload",
          !.canvas = Resize(image.width, image.height, MAX_SIZE("createThumbnail")),
          !.revoked = IF ctx THEN image.revoked \cup {ObjectUrl} ELSE image.revoked,
          !.settled = "resolved",
          !.value = IF ctx THEN "base64" ELSE ""]
    /\ UNCHANGED <<tenants, unitPrice, items, isAnalyzingAll, activeTab, isSharedView,
                   view, reqs, batch, started, settled, nextId, nextRid, apiKey, link,
                   alert, exporting>>

\* img.onerror of createThumbnail
CreateThumbnailOnerror ==
    /\ image.step = "loading" /\ image.fn = "createThumbnail"
    /\ image' = [image EXCEPT !.step = "onerror", !.settled = "resolved", !.value = ""]
    /\ UNCHANGED <<tenants, unitPrice, items, isAnalyzingAll, activeTab, isSharedView,
                   view, reqs, batch, started, settled, nextId, nextRid, apiKey, link,
                   alert, exporting>>

----------------------------------------------------------------------------
Init ==
    /\ tenants = DEFAULT_TENANTS
    /\ unitPrice = DefaultUnitPrice
    /\ items = <<>>
    /\ isAnalyzingAll = FALSE
    /\ activeTab = "analysis"
    /\ isSharedView = FALSE
    /\ view = Rendered(<<>>, FALSE)
    /\ reqs = {}
    /\ batch = {}
    /\ started = {}
    /\ settled = Undefined
    /\ nextId = 0
    /\ nextRid = 0
    /\ apiKey \in {"", "key"}
    /\ link = Undefined
    /\ alert = NoError
    /\ image = NoImage
    /\ isProcessing = FALSE
    /\ toastMsg = NoToast
    /\ exports = {}

\* What the handlers of the analysis tab leave alone.
config == <<tenants, unitPrice, isSharedView, apiKey, link, alert, image, exporting>>

\* ImageUploader -> handleImagesSelect(files)
HandleImagesSelect(n) ==
    /\ activeTab = "analysis"
    /\ items' = items \o [k \in 1..n |-> NewItem(nextId + k, UploadedFile)]
    /\ nextId' = nextId + n
    /\ view' = Rendered(items', isAnalyzingAll)
    /\ settled' = Undefined
    /\ UNCHANGED <<config, isAnalyzingAll, activeTab, reqs, batch, started, nextRid>>

\* ImageUploader -> handleRemoveImage(index)
HandleRemoveImage(index) ==
    /\ activeTab = "analysis"
    /\ index \in DOMAIN view.items
    /\ items' = RemoveAt(items, index)
    /\ view' = Rendered(items', isAnalyzingAll)
    /\ settled' = Undefined
    /\ UNCHANGED <<config, isAnalyzingAll, activeTab, reqs, batch, started, nextId, nextRid>>

\* The Clear All button
HandleClearAll ==
    /\ activeTab = "analysis"
    /\ Len(view.items) > 0
    /\ items' = <<>>
    /\ view' = Rendered(items', isAnalyzingAll)
    /\ settled' = Undefined
    /\ UNCHANGED <<config, isAnalyzingAll, activeTab, reqs, batch, started, nextId, nextRid>>

\* The Retry Analysis button of a failed item: analyzeItem(item)
ClickRetry(k) ==
    /\ activeTab = "analysis"
    /\ k \in DOMAIN view.items
    /\ view.items[k].status = "error"
    /\ LET a == AnalyzeEach(<<view.items[k]>>, items, reqs, nextRid)
       IN  /\ items' = a.items
           /\ reqs' = a.reqs
           /\ nextRid' = a.rid
    /\ view' = Rendered(items', isAnalyzingAll)
    /\ settled' = Undefined
    /\ UNCHANGED <<config, isAnalyzingAll, activeTab, batch, started, nextId>>

\* The Analyze Pending Items button
HandleAnalyzeAll ==
    /\ activeTab = "analysis"
    /\ Len(view.items) > 0
    /\ PendingCount(view.items) > 0
    /\ ~view.isAnalyzingAll
    /\ LET idleItems == IdleItems(view.items)
           a == AnalyzeEach(idleItems, items, reqs, nextRid)
       IN  /\ items' = a.items
           /\ reqs' = a.reqs
           /\ nextRid' = a.rid
           /\ batch' = {r.rid : r \in a.reqs \ reqs}
           /\ isAnalyzingAll' = (batch' # {})
           /\ started' = IF batch' = {} THEN {} ELSE Ids(idleItems)
    /\ view' = Rendered(items', isAnalyzingAll')
    /\ settled' = Undefined
    /\ UNCHANGED <<config, activeTab, nextId>>

\* What the user may type into a reading field: a number or something
\* parseFloat makes NaN of.
EditInputs == { [valid |-> TRUE, value |-> 2001], [valid |-> FALSE, value |-> 0] }

\* Faulty variant: the edit without the recomputation of usage.
EditedResultStale(localResult, type, newVal) ==
    IF type = "start"
    THEN [localResult EXCEPT !.startReading.value = newVal]
    ELSE [localResult EXCEPT !.endReading.value = newVal]

\* AnalysisResults.handleValueChange on the result it was rendered with
EditedResult(localResult, type, newVal) ==
    LET updated == IF type = "start"
                   THEN [localResult EXCEPT !.startReading.value = newVal]
                   ELSE [localResult EXCEPT !.endReading.value = newVal]
    IN  [updated EXCEPT !.usage = ComputeUsage(updated.startReading.value,
                                               updated.endReading.value)]

HandleValueChange(k, type, valueStr) ==
    /\ activeTab = "analysis"
    /\ k \in DOMAIN view.items
    /\ view.items[k].status = "success"
    /\ view.items[k].result # Undefined
    /\ IF valueStr.valid
       THEN items' = UpdateResult(items, view.items[k].id,
                                  EditedResult(view.items[k].result, type, valueStr.value))
       ELSE items' = items
    /\ view' = Rendered(items', isAnalyzingAll)
    /\ settled' = Undefined
    /\ UNCHANGED <<config, isAnalyzingAll, activeTab, reqs, batch, started, nextId, nextRid>>

\* AnalysisResults.handleTenantChange
HandleTenantChange(k, tenantId) ==
    /\ activeTab = "analysis"
    /\ k \in DOMAIN view.items
    /\ view.items[k].status = "success"
    /\ view.items[k].result # Undefined
    /\ items' = UpdateAssignment(items, view.items[k].id,
                                 [tenantId |-> tenantId, meterName |-> <<>>])
    /\ view' = Rendered(items', isAnalyzingAll)
    /\ settled' = Undefined
    /\ UNCHANGED <<config, isAnalyzingAll, activeTab, reqs, batch, started, nextId, nextRid>>

\* The meter select of AnalysisResults
HandleMeterSelect(k, t, m) ==
    /\ activeTab = "analysis"
    /\ k \in DOMAIN view.items
    /\ view.items[k].status = "success"
    /\ view.items[k].result # Undefined
    /\ t \in DOMAIN tenants
    /\ tenants[t].id = view.items[k].assignment.tenantId
    /\ m \in DOMAIN tenants[t].meters
    /\ items' = UpdateAssignment(items, view.items[k].id,
                                 [view.items[k].assignment EXCEPT
                                     !.meterName = tenants[t].meters[m]])
    /\ view' = Rendered(items', isAnalyzingAll)
    /\ settled' = Undefined
    /\ UNCHANGED <<config, isAnalyzingAll, activeTab, reqs, batch, started, nextId, nextRid>>

----------------------------------------------------------------------------
(* analyzeItem after its await: compressImage, generateContentWithRetry,    *)
(* the parse, and the two settlements.                                      *)

\* What a settled call did: the requests it sent, the waits it made, the classes
\* of the errors the provider answered with, the last of them, the reply if
\* one came, and what analyzeMeterImage returned or threw.
Summary(r, outcome, thrown, last, reply) ==
    [rid |-> r.rid, id |-> r.id, sent |-> r.sent, waits |-> r.waits,
     errors |-> r.errors, last |-> last, reply |-> reply,
     outcome |-> outcome, thrown |-> thrown]

\* The promise settles: one setItems, then Promise.all's continuation in
\* handleAnalyzeAll if this was the last request it awaited.
Settle(r, newItems, summary) ==
    /\ items' = newItems
    /\ reqs' = {q \in reqs : q.rid # r.rid}
    /\ batch' = batch \ {r.rid}
    /\ started' = IF batch' = {} THEN {} ELSE started
    /\ isAnalyzingAll' = IF r.rid \in batch /\ batch' = {} THEN FALSE ELSE isAnalyzingAll
    /\ settled' = summary
    /\ UNCHANGED <<config, activeTab, view, nextId, nextRid>>

\* analyzeMeterImage throws new Error(message): the catch of analyzeItem
Fail(r, message, last, reply) ==
    Settle(r, SettleError(items, r.id, message),
           Summary(r, "threw", message, last, reply))

\* analyzeMeterImage returns result
Succeed(r, result, reply) ==
    Settle(r, SettleSuccess(items, r.id, result),
           Summary(r, "returned", NoError, Undefined, reply))

Continue(r, r2) ==
    /\ reqs' = {q \in reqs : q.rid # r.rid} \cup {r2}
    /\ UNCHANGED <<config, items, isAnalyzingAll, activeTab, view, batch, started, settled,
                   nextId, nextRid>>

\* compressImage rejects: img.onerror hands over an Event, which has no message
CompressDecodeError(r) ==
    /\ r \in reqs /\ r.pc = "compress"
    /\ Fail(r, "", Undefined, Undefined)

\* compressImage rejects: no 2d context
CompressCanvasError(r) ==
    /\ r \in reqs /\ r.pc = "compress"
    /\ Fail(r, "Canvas context failed", Undefined, Undefined)

\* compressImage resolves; generateContentWithRetry reads the key and sends the
\* first request
CompressOk(r) ==
    /\ r \in reqs /\ r.pc = "compress"
    /\ IF apiKey = ""
       THEN Fail(r, MapError(InternalError("API Key is missing")), Undefined, Undefined)
       ELSE Continue(r, [r EXCEPT !.pc = "call", !.sent = 1])

\* generateContent rejects with error: the catch of the retry loop
RespondError(r, error) ==
    /\ r \in reqs /\ r.pc = "call"
    /\ LET r1 == [r EXCEPT !.errors = Append(r.errors, error.class)]
       IN  IF ShouldRetry(error, r.i)
           THEN Continue(r, [r1 EXCEPT !.pc = "wait",
                                       !.waits = Append(r.waits, r.currentDelay)])
           ELSE Fail(r1, MapError(error), error, Undefined)

\* await wait(currentDelay) is over: the next round of the loop sends again
WaitDone(r) ==
    /\ r \in reqs /\ r.pc = "wait"
    /\ Continue(r, [r EXCEPT !.pc = "call", !.currentDelay = NextDelay(r.currentDelay),
                             !.i = r.i + 1, !.sent = r.sent + 1])

\* generateContent resolves with a reply
RespondReply(r, reply) ==
    /\ r \in reqs /\ r.pc = "call"
    /\ LET parsed == ParseReply(reply)
       IN  IF parsed.ok
           THEN Succeed(r, parsed.result, reply)
           ELSE Fail(r, MapError(parsed.error), parsed.error, reply)

\* React renders the state that settlements left
Render ==
    /\ view # Rendered(items, isAnalyzingAll)
    /\ view' = Rendered(items, isAnalyzingAll)
    /\ settled' = Undefined
    /\ UNCHANGED <<config, items, isAnalyzingAll, activeTab, reqs, batch, started,
                   nextId, nextRid>>

----------------------------------------------------------------------------
(* The share link: components/Invoice.tsx makes it, App.tsx reads it.  The  *)
(* JSON text is kept as its tree; a string leaf is the text between the     *)
(* quotes.  The texts of the model hold no quote, backslash or control      *)
(* character, so JSON's own escaping does nothing to them; percent-encoding *)
(* and -decoding act on each leaf as they act on the whole text.            *)

\* Characters encodeURIComponent escapes, among those of the model's texts.
Reserved == {"%", " ", ":", "/", ";", ","}

HexOf(c) ==
    CASE c = "%" -> "25" [] c = " " -> "20" [] c = ":" -> "3A"
      [] c = "/" -> "2F" [] c = ";" -> "3B" [] c = "," -> "2C"

\* Pairs of hex digits that are a character of the model's texts.
HexPairs == {"25", "20", "3A", "2F", "3B", "2C", "41"}

CharOf(h) ==
    CASE h = "25" -> "%" [] h = "20" -> " " [] h = "3A" -> ":"
      [] h = "2F" -> "/" [] h = "3B" -> ";" [] h = "2C" -> "," [] h = "41" -> "A"

RECURSIVE EncodeURIComponent(_)
EncodeURIComponent(text) ==
    IF text = <<>> THEN <<>>
    ELSE IF Head(text) \in Reserved
    THEN <<"%", HexOf(Head(text))>> \o EncodeURIComponent(Tail(text))
    ELSE <<Head(text)>> \o EncodeURIComponent(Tail(text))

\* decodeURIComponent throws URIError: a '%' that no pair of hex digits follows,
\* or one whose pair is no character
RECURSIVE Malformed(_)
Malformed(text) ==
    IF text = <<>> THEN FALSE
    ELSE IF Head(text) = "%"
    THEN \/ Len(text) = 1
         \/ text[2] \notin HexPairs
         \/ Malformed(Tail(Tail(text)))
    ELSE Malformed(Tail(text))

\* decodeURIComponent of a text that is not malformed
RECURSIVE DecodeURIComponent(_)
DecodeURIComponent(text) ==
    IF text = <<>> THEN <<>>
    ELSE IF Head(text) = "%"
    THEN <<CharOf(text[2])>> \o DecodeURIComponent(Tail(Tail(text)))
    ELSE <<Head(text)>> \o DecodeURIComponent(Tail(text))

\* URLSearchParams.get: percent-decoding that leaves a stray '%' as it is
RECURSIVE SearchParamDecode(_)
SearchParamDecode(text) ==
    IF text = <<>> THEN <<>>
    ELSE IF Head(text) = "%" /\ Len(text) > 1 /\ text[2] \in HexPairs
    THEN <<CharOf(text[2])>> \o SearchParamDecode(Tail(Tail(text)))
    ELSE <<Head(text)>> \o SearchParamDecode(Tail(text))

StringFields == {"n", "sd", "ed", "img"}

\* One of the three conversions of a text
Convert(how, text) ==
    CASE how = "encodeURIComponent" -> EncodeURIComponent(text)
      [] how = "URLSearchParams.get" -> SearchParamDecode(text)
      [] how = "decodeURIComponent" -> DecodeURIComponent(text)

\* A conversion applied to the whole JSON text, leaf by leaf
MapStrings(how, json) ==
    [g \in DOMAIN json |->
        IF g = "t" THEN Convert(how, json.t)
        ELSE IF g = "i"
        THEN [k \in DOMAIN json.i |->
                [f \in DOMAIN json.i[k] |->
                    IF f \in StringFields THEN Convert(how, json.i[k][f])
                    ELSE json.i[k][f]]]
        ELSE json[g]]

StringsOf(json) ==
    (IF "t" \in DOMAIN json THEN {json.t} ELSE {})
    \cup (IF "i" \in DOMAIN json
          THEN UNION { {json.i[k][f] : f \in StringFields \cap DOMAIN json.i[k]} :
                       k \in DOMAIN json.i }
          ELSE {})

\* JSON.parse throws on the text
NotJson(url) == "text" \in DOMAIN url

\* decoded.p, when it is there and truthy
TruthyP(decoded) == "p" \in DOMAIN decoded /\ decoded.p # 0

\* The payload of generateShareUrl
SharePayload(invoice, price) ==
    [t |-> invoice.tenant.name, p |-> price,
     i |-> [k \in DOMAIN invoice.items |->
              [n |-> invoice.items[k].meterName,
               s |-> invoice.items[k].result.startReading.value,
               sd |-> invoice.items[k].result.startReading.date,
               e |-> invoice.items[k].result.endReading.value,
               ed |-> invoice.items[k].result.endReading.date,
               u |-> invoice.items[k].result.usage]]]

\* What createThumbnail resolves with when it draws: the base64 text of a JPEG
ThumbnailBase64 == <<"/", "9j", "/", "AAAA">>

\* The payload of handleShareLink: thumbs[k] tells whether createThumbnail
\* resolved for item k
SharePayloadWithImages(invoice, price, thumbs) ==
    [t |-> invoice.tenant.name, p |-> price,
     i |-> [k \in DOMAIN invoice.items |->
              [n |-> invoice.items[k].meterName,
               s |-> invoice.items[k].result.startReading.value,
               sd |-> invoice.items[k].result.startReading.date,
               e |-> invoice.items[k].result.endReading.value,
               ed |-> invoice.items[k].result.endReading.date,
               u |-> invoice.items[k].result.usage,
               img |-> IF /\ ~invoice.items[k].isShared
                          /\ invoice.items[k].file.size > 0
                          /\ thumbs[k]
                       THEN ThumbnailBase64 ELSE <<>>]]]

\* encodeURIComponent(JSON.stringify(payload))
ShareUrl(payload) == MapStrings("encodeURIComponent", payload)

SharedTenantId == "shared-tenant"

\* `shared-${idx}`
SharedItemId(idx) ==
    CASE idx = 0 -> "shared-0" [] idx = 1 -> "shared-1" [] idx = 2 -> "shared-2"
      [] OTHER -> "shared-n"

\* new File([""], "Image_Not_Available_In_Share_Mode")
PlaceholderFile == [name |-> "Image_Not_Available_In_Share_Mode", size |-> 0]

SharedInvoice == <<"Shared", " ", "Invoice">>

\* The tenant and the items the effect makes of the decoded payload
SharedTenant(decoded) ==
    [id |-> SharedTenantId,
     name |-> IF decoded.t = <<>> THEN SharedInvoice ELSE decoded.t,
     meters |-> [k \in DOMAIN decoded.i |-> decoded.i[k].n]]

ReconstructedItems(decoded) ==
    [k \in DOMAIN decoded.i |->
        [id |-> SharedItemId(k - 1), file |-> PlaceholderFile, status |-> "success",
         result |-> [startReading |-> [date |-> decoded.i[k].sd, value |-> decoded.i[k].s],
                     endReading |-> [date |-> decoded.i[k].ed, value |-> decoded.i[k].e],
                     usage |-> decoded.i[k].u],
         error |-> NoError,
         assignment |-> [tenantId |-> SharedTenantId, meterName |-> decoded.i[k].n],
         isShared |-> TRUE]]

\* The tab buttons, which a shared view does not show
\* and which mount and unmount the Invoice component: its state starts anew,
\* and the setters of the operations it had started no longer reach a component
SetActiveTab(tab) ==
    /\ ~isSharedView
    /\ activeTab # tab
    /\ activeTab' = tab
    /\ isProcessing' = FALSE
    /\ toastMsg' = NoToast
    /\ exports' = {[x EXCEPT !.unmounted = TRUE] : x \in exports}
    /\ view' = Rendered(items, isAnalyzingAll)
    /\ settled' = Undefined
    /\ UNCHANGED <<tenants, unitPrice, isSharedView, apiKey, link, alert, image, items,
                   isAnalyzingAll, reqs, batch, started, nextId, nextRid>>

\* The name field of a company in the configuration panel
HandleTenantNameChange(idx, name) ==
    /\ ~isSharedView
    /\ idx \in DOMAIN tenants
    /\ tenants' = [tenants EXCEPT ![idx].name = name]
    /\ view' = Rendered(items, isAnalyzingAll)
    /\ settled' = Undefined
    /\ UNCHANGED <<unitPrice, isSharedView, apiKey, link, alert, image, items, isAnalyzingAll,
                   activeTab, reqs, batch, started, nextId, nextRid, exporting>>

\* The remove button of a company, window.confirm answered with OK
HandleRemoveTenant(id) ==
    /\ ~isSharedView
    /\ \E t \in DOMAIN tenants : tenants[t].id = id
    /\ tenants' = SeqFilter(tenants, {tenant \in Range(tenants) : tenant.id # id})
    /\ view' = Rendered(items, isAnalyzingAll)
    /\ settled' = Undefined
    /\ UNCHANGED <<unitPrice, isSharedView, apiKey, link, alert, image, items, isAnalyzingAll,
                   activeTab, reqs, batch, started, nextId, nextRid, exporting>>

\* The unit price field of the header: setUnitPrice(Number(e.target.value))
HandleUnitPriceChange(price) ==
    /\ ~isSharedView
    /\ unitPrice' = price
    /\ view' = Rendered(items, isAnalyzingAll)
    /\ settled' = Undefined
    /\ UNCHANGED <<tenants, isSharedView, apiKey, link, alert, image, items, isAnalyzingAll,
                   activeTab, reqs, batch, started, nextId, nextRid, exporting>>

MakeLink(invoice, payload) ==
    /\ link' = [of |-> invoice, url |-> ShareUrl(payload)]
    /\ view' = Rendered(items, isAnalyzingAll)
    /\ settled' = Undefined
    /\ UNCHANGED <<tenants, unitPrice, isSharedView, apiKey, alert, image, items,
                   isAnalyzingAll,
                   activeTab, reqs, batch, started, nextId, nextRid, isProcessing, exports>>

\* Copy Link on the k-th invoice: generateShareUrl
HandleCopyLink(k) ==
    /\ activeTab = "invoice" /\ ~isSharedView /\ ~isProcessing
    /\ toastMsg' = "Link Copied!"
    /\ LET invoices == InvoiceData(tenants, items, unitPrice)
       IN  /\ k \in DOMAIN invoices
           /\ MakeLink(invoices[k], SharePayload(invoices[k], unitPrice))

\* Share Link on the k-th invoice (first revision of the component)
HandleShareLink(k, thumbs) ==
    /\ activeTab = "invoice" /\ ~isSharedView
    /\ UNCHANGED toastMsg
    /\ LET invoices == InvoiceData(tenants, items, unitPrice)
       IN  /\ k \in DOMAIN invoices
           /\ MakeLink(invoices[k], SharePayloadWithImages(invoices[k], unitPrice, thumbs))

\* An export operation of the Invoice component that has passed
\* setIsProcessing(true) and awaits html2canvas
NewExport(op, invoice, price) ==
    [xid |-> CHOOSE n \in 1..MaxExports : \A x \in exports : x.xid # n,
     op |-> op, invoice |-> invoice, price |-> price, unmounted |-> FALSE]

\* Download PDF: the button of the landlord's action bar, disabled while
\* isProcessing, or the button of the shared view's banner, which is not
HandleDownloadPDF ==
    /\ activeTab = "invoice"
    /\ InvoiceData(tenants, items, unitPrice) # <<>>
    /\ isSharedView \/ ~isProcessing
    /\ Cardinality(exports) < MaxExports
    /\ isProcessing' = TRUE
    /\ exports' = exports \cup {NewExport("pdf", Null, unitPrice)}
    /\ view' = Rendered(items, isAnalyzingAll)
    /\ settled' = Undefined
    /\ UNCHANGED <<tenants, unitPrice, isSharedView, apiKey, link, alert, image, items,
                   isAnalyzingAll, activeTab, reqs, batch, started, nextId, nextRid,
                   toastMsg>>

\* Create Card on the k-th invoice
HandleShareSummaryCard(k) ==
    /\ activeTab = "invoice" /\ ~isSharedView /\ ~isProcessing
    /\ Cardinality(exports) < MaxExports
    /\ LET invoices == InvoiceData(tenants, items, unitPrice)
       IN  /\ k \in DOMAIN invoices
           /\ exports' = exports \cup {NewExport("card", invoices[k], unitPrice)}
    /\ isProcessing' = TRUE
    /\ view' = Rendered(items, isAnalyzingAll)
    /\ settled' = Undefined
    /\ UNCHANGED <<tenants, unitPrice, isSharedView, apiKey, link, alert, image, items,
                   isAnalyzingAll, activeTab, reqs, batch, started, nextId, nextRid,
                   toastMsg>>

\* How an export operation ends, and the toast it shows then
ExportOutcomes(op) ==
    IF op = "pdf" THEN {"saved", "failed"} ELSE {"shared", "cancelled", "saved", "failed"}

ToastOf(op, outcome, toast) ==
    IF op = "pdf"
    THEN IF outcome = "saved" THEN "PDF Downloaded!" ELSE "Failed to generate PDF"
    ELSE CASE outcome = "shared" -> "Opened Share Sheet!"
           [] outcome = "cancelled" -> toast
           [] outcome = "saved" -> "Card Saved! Link copied to clipboard."
           [] outcome = "failed" -> "Failed to create card"

\* The rest of handleDownloadPDF or handleShareSummaryCard: try, catch, finally.
\* A card that did not fail has written its link to the clipboard.
FinishExport(x, outcome) ==
    /\ x \in exports
    /\ outcome \in ExportOutcomes(x.op)
    /\ exports' = exports \ {x}
    /\ IF x.unmounted
       THEN UNCHANGED <<isProcessing, toastMsg>>
       ELSE /\ isProcessing' = FALSE
            /\ toastMsg' = ToastOf(x.op, outcome, toastMsg)
    /\ link' = IF x.op = "card" /\ outcome # "failed"
               THEN [of |-> x.invoice, url |-> ShareUrl(SharePayload(x.invoice, x.price))]
               ELSE link
    /\ UNCHANGED <<tenants, unitPrice, isSharedView, apiKey, alert, image, items,
                   isAnalyzingAll, activeTab, view, reqs, batch, started, settled,
                   nextId, nextRid>>

\* The timer of the Toast component: onClose
CloseToast ==
    /\ toastMsg # NoToast
    /\ toastMsg' = NoToast
    /\ UNCHANGED <<tenants, unitPrice, isSharedView, apiKey, link, alert, image, items,
                   isAnalyzingAll, activeTab, view, reqs, batch, started, settled,
                   nextId, nextRid, isProcessing, exports>>

\* A page opened on the link: the state after construction, then the effect of
\* App on ?share=
OpenShareLink ==
    /\ link # Undefined
    /\ ~isSharedView /\ alert = NoError
    /\ LET shareData == MapStrings("URLSearchParams.get", link.url)
           decoded == MapStrings("decodeURIComponent", shareData)
       IN  IF NotJson(link.url) \/ \E text \in StringsOf(shareData) : Malformed(text)
           THEN /\ alert' = "Invalid shared link."
                /\ tenants' = DEFAULT_TENANTS
                /\ unitPrice' = DefaultUnitPrice
                /\ items' = <<>>
                /\ isSharedView' = FALSE
                /\ activeTab' = "analysis"
           ELSE IF "i" \notin DOMAIN decoded
           THEN \* decoded.i.map throws after setUnitPrice, before setTenants
                /\ alert' = "Invalid shared link."
                /\ tenants' = DEFAULT_TENANTS
                /\ unitPrice' = IF TruthyP(decoded) THEN decoded.p ELSE DefaultUnitPrice
                /\ items' = <<>>
                /\ isSharedView' = FALSE
                /\ activeTab' = "analysis"
           ELSE /\ alert' = NoError
                /\ tenants' = <<SharedTenant(decoded)>>
                /\ unitPrice' = IF TruthyP(decoded) THEN decoded.p ELSE DefaultUnitPrice
                /\ items' = ReconstructedItems(decoded)
                /\ isSharedView' = TRUE
                /\ activeTab' = "invoice"
    /\ isAnalyzingAll' = FALSE
    /\ view' = Rendered(items', FALSE)
    /\ reqs' = {}
    /\ batch' = {}
    /\ started' = {}
    /\ settled' = Undefined
    /\ nextId' = 0
    /\ nextRid' = 0
    /\ isProcessing' = FALSE
    /\ toastMsg' = NoToast
    /\ exports' = {}
    /\ UNCHANGED <<apiKey, link, image>>

----------------------------------------------------------------------------
(* Specifications.  Spec is the page with several items, a provider that   *)
(* answers at the first request, from a short list, and a browser that     *)
(* always has a 2d context.  SpecCall is the page with one item and every  *)
(* answer of the model's provider.                                         *)

BriefErrors ==
    { Err("bad-request", 400, FALSE, "Invalid argument") }

BriefReplies ==
    { JsonReply(Reading(Date1, 1236), Reading(Date2, 0)), [text |-> "empty"] }

\* The events of the user, for a page of at most cap items and a user who picks
\* among the first nt tenants and the first nm meters of each.
UserNext(cap, nt, nm) ==
    \/ \E n \in 1..cap :
          /\ Len(items) + n <= cap
          /\ nextId + n <= cap + 1
          /\ HandleImagesSelect(n)
    \/ \E index \in 1..cap : HandleRemoveImage(index)
    \/ HandleClearAll
    \/ \E k \in 1..cap : nextRid < MaxCalls /\ ClickRetry(k)
    \/ nextRid + Len(IdleItems(view.items)) <= MaxCalls /\ HandleAnalyzeAll
    \/ \E k \in 1..cap, type \in {"start", "end"}, valueStr \in EditInputs :
          HandleValueChange(k, type, valueStr)
    \/ \E k \in 1..cap, tenantId \in {""} \cup {tenants[t].id : t \in 1..nt} :
          HandleTenantChange(k, tenantId)
    \/ \E k \in 1..cap, t \in 1..nt, m \in 1..nm : HandleMeterSelect(k, t, m)

\* The steps of the calls in flight, for a provider answering from the given sets.
CallNext(errors, replies) ==
    \/ \E r \in reqs : CompressDecodeError(r)
    \/ \E r \in reqs : CompressOk(r)
    \/ \E r \in reqs, error \in errors : RespondError(r, error)
    \/ \E r \in reqs, reply \in replies : RespondReply(r, reply)

Next ==
    \/ UserNext(MaxItems, 1, 1)
    \/ CallNext(BriefErrors, BriefReplies)
    \/ Render

Spec == Init /\ [][Next]_vars

NextCall ==
    \/ UserNext(1, 2, 2)
    \/ CallNext(ProviderErrors, Replies)
    \/ \E r \in reqs : CompressCanvasError(r)
    \/ \E r \in reqs : WaitDone(r)
    \/ Render

SpecCall == Init /\ [][NextCall]_vars

(* SpecShare is the page of a sender whose items have been analyzed and     *)
(* assigned, the link they make, and the page of whoever opens it.          *)

NameTokens == {"A", "%", "41"}

TenantNames == UNION {[1..m -> NameTokens] : m \in 0..MaxNameLen}

\* Meter names of an analyzed item: one picked from the list, one typed
AssignedMeters == {DEFAULT_TENANTS[1].meters[1], <<"50", "%">>}

AnalyzedItems ==
    { [NewItem(0, UploadedFile) EXCEPT
          !.status = "success",
          !.result = ParseReply(reply).result,
          !.assignment = [tenantId |-> DEFAULT_TENANTS[1].id, meterName |-> meter]] :
      reply \in {JsonReply(Reading(Date1, 1236), Reading(Date2, 0)),
                 JsonReply(Reading(Date1, 100), Reading(Date2, 1334))},
      meter \in AssignedMeters }

InitShare ==
    /\ tenants = DEFAULT_TENANTS
    /\ unitPrice = DefaultUnitPrice
    /\ \E n \in 1..MaxItems : \E its \in [1..n -> AnalyzedItems] :
          /\ items = [k \in 1..n |-> [its[k] EXCEPT !.id = k]]
          /\ nextId = n
          /\ nextRid = n
    /\ isAnalyzingAll = FALSE
    /\ activeTab = "analysis"
    /\ isSharedView = FALSE
    /\ view = Rendered(items, FALSE)
    /\ reqs = {}
    /\ batch = {}
    /\ started = {}
    /\ settled = Undefined
    /\ apiKey = "key"
    /\ link = Undefined
    /\ alert = NoError
    /\ image = NoImage
    /\ isProcessing = FALSE
    /\ toastMsg = NoToast
    /\ exports = {}

NextShare ==
    \/ \E tab \in {"analysis", "invoice"} : SetActiveTab(tab)
    \/ \E name \in TenantNames : HandleTenantNameChange(1, name)
    \/ \E k \in 1..Len(tenants) : HandleCopyLink(k)
    \/ \E k \in 1..Len(tenants), thumbs \in [1..MaxItems -> BOOLEAN] : HandleShareLink(k, thumbs)
    \/ OpenShareLink

SpecShare == InitShare /\ [][NextShare]_vars

(* SpecLink is a page opened on a link that came from elsewhere: the       *)
(* payload is whatever the query string holds.                              *)

ForeignItems ==
    [n : {<<"M">>}, s : {0, 1236}, sd : {Date1}, e : {0, 1334}, ed : {Date2},
     u : {0, 1330, 1240}]
    \cup [n : {<<"M">>}, s : {0, 1236}, sd : {Date1}, e : {0, 1334}, ed : {Date2},
          u : {0, 1330, 1240}, img : {ThumbnailBase64}]

ForeignPayloads ==
    UNION { [t : {<<"A">>, <<>>}, p : {0, 150, 200}, i : [1..n -> ForeignItems]] :
            n \in 1..MaxItems }

\* Share parameters that are no JSON text, or JSON without an item list
UnusablePayloads ==
    { [text |-> "notjson"], [t |-> <<"A">>], [t |-> <<"A">>, p |-> 0],
      [t |-> <<"A">>, p |-> 200], [p |-> 200] }

InitLink ==
    /\ tenants = DEFAULT_TENANTS
    /\ unitPrice = DefaultUnitPrice
    /\ items = <<>>
    /\ isAnalyzingAll = FALSE
    /\ activeTab = "analysis"
    /\ isSharedView = FALSE
    /\ view = Rendered(<<>>, FALSE)
    /\ reqs = {}
    /\ batch = {}
    /\ started = {}
    /\ settled = Undefined
    /\ nextId = 0
    /\ nextRid = 0
    /\ apiKey = "key"
    /\ \E payload \in ForeignPayloads \cup UnusablePayloads :
          link = [of |-> Undefined, url |-> ShareUrl(payload)]
    /\ alert = NoError
    /\ image = NoImage
    /\ isProcessing = FALSE
    /\ toastMsg = NoToast
    /\ exports = {}

NextLink == OpenShareLink

SpecLink == InitLink /\ [][NextLink]_vars

(* SpecTenants is the page of a user who analyzes items, assigns them to   *)
(* companies and removes companies.                                        *)

TenantReplies ==
    { JsonReply(Reading(Date1, 1236), Reading(Date2, 0)),
      JsonReply(Reading(Date1, 100), Reading(Date2, 1334)) }

NextTenants ==
    \/ \E n \in 1..MaxItems :
          /\ nextId + n <= MaxItems
          /\ HandleImagesSelect(n)
    \/ nextRid + Len(IdleItems(view.items)) <= MaxCalls /\ HandleAnalyzeAll
    \/ \E r \in reqs : CompressOk(r)
    \/ \E r \in reqs, reply \in TenantReplies : RespondReply(r, reply)
    \/ Render
    \/ \E k \in 1..MaxItems, t \in 1..2 :
          t \in DOMAIN tenants /\ HandleTenantChange(k, tenants[t].id)
    \/ \E k \in 1..MaxItems : HandleTenantChange(k, "")
    \/ \E id \in {DEFAULT_TENANTS[1].id, DEFAULT_TENANTS[2].id} : HandleRemoveTenant(id)

SpecTenants == Init /\ [][NextTenants]_vars

(* SpecImage is one call of compressImage or createThumbnail on a file of  *)
(* any of the sizes.                                                       *)

NextImage ==
    \/ \E fn \in {"compressImage", "createThumbnail"}, width \in Sides, height \in Sides :
          LoadImage(fn, width, height)
    \/ \E ctx \in BOOLEAN : CompressImageOnload(ctx)
    \/ CompressImageOnerror
    \/ \E ctx \in BOOLEAN : CreateThumbnailOnload(ctx)
    \/ CreateThumbnailOnerror

SpecImage == Init /\ [][NextImage]_vars

(* SpecInvoice is the page of a user who analyzes items, assigns them to   *)
(* the first company and types unit prices.                                *)

\* What the user types into the unit price field
Prices == {0 - 1, 0, 1, DefaultUnitPrice}

InvoiceReplies ==
    { JsonReply(Reading(Date1, 0), Reading(Date2, 110000)),
      JsonReply(Reading(Date1, 100), Reading(Date2, 1334)) }

NextInvoice ==
    \/ \E n \in 1..MaxItems :
          /\ nextId + n <= MaxItems
          /\ HandleImagesSelect(n)
    \/ nextRid + Len(IdleItems(view.items)) <= MaxCalls /\ HandleAnalyzeAll
    \/ \E r \in reqs : CompressOk(r)
    \/ \E r \in reqs, reply \in InvoiceReplies : RespondReply(r, reply)
    \/ Render
    \/ \E k \in 1..MaxItems : HandleTenantChange(k, tenants[1].id)
    \/ \E price \in Prices : HandleUnitPriceChange(price)

SpecInvoice == Init /\ [][NextInvoice]_vars

(* SpecSharePrice is the landlord's page with analyzed items, on which the *)
(* unit price is typed and a link copied, and the page opened on the link. *)

NextSharePrice ==
    \/ \E tab \in {"analysis", "invoice"} : SetActiveTab(tab)
    \/ \E price \in Prices : HandleUnitPriceChange(price)
    \/ \E k \in 1..Len(tenants) : HandleCopyLink(k)
    \/ OpenShareLink

SpecSharePrice == InitShare /\ [][NextSharePrice]_vars

(* SpecExport is the landlord's page with analyzed items and the page      *)
(* opened on a copied link, with the export buttons of the invoices.       *)

NextExport ==
    \/ \E tab \in {"analysis", "invoice"} : SetActiveTab(tab)
    \/ HandleCopyLink(1)
    \/ OpenShareLink
    \/ HandleDownloadPDF
    \/ HandleShareSummaryCard(1)
    \/ \E x \in exports, outcome \in {"shared", "cancelled", "saved", "failed"} :
          FinishExport(x, outcome)
    \/ CloseToast

SpecExport == InitShare /\ [][NextExport]_vars

----------------------------------------------------------------------------
(* Properties *)

\* The item a settled call was made for, if it is still on the page
SettledItems == {k \in DOMAIN items : items[k].id = settled.id}

AllRateLimit(errors) == \A k \in DOMAIN errors : errors[k] = "rate-limit"

\* C1: for every reply that parses to a start value s and an end value e,
\* analyzeMeterImage returns, and the usage of the result is |e - s| rounded to
\* two decimals: a whole number of hundredths, at most half a hundredth away
\* from |e - s|, and never negative.
C1_UsageIsRoundedAbsDifference ==
    (/\ settled # Undefined
     /\ settled.reply # Undefined
     /\ settled.reply.text = "json"
     /\ settled.reply.startReading # Undefined
     /\ settled.reply.endReading # Undefined
     /\ "value" \in DOMAIN settled.reply.startReading
     /\ "value" \in DOMAIN settled.reply.endReading)
    => /\ settled.outcome = "returned"
       /\ \A k \in SettledItems :
             LET s == settled.reply.startReading.value
                 e == settled.reply.endReading.value
                 u == items[k].result.usage
             IN  /\ u >= 0
                 /\ u % 10 = 0
                 /\ Abs(u - Abs(e - s)) <= 5
                 /\ items[k].result.startReading.value = s
                 /\ items[k].result.endReading.value = e

\* A call returned for a reply whose end value is below its start value.
C1_Witness ==
    /\ settled # Undefined
    /\ settled.outcome = "returned"
    /\ settled.reply = JsonReply(Reading(Date1, 1236), Reading(Date2, 0))
    /\ \E k \in SettledItems : items[k].result.usage = 1240

\* C2: editing the start or the end value of a success item to a number v sets
\* that reading to v, sets usage to |end - start| rounded to two decimals in the
\* same update, and leaves the status success.
C2_EditRecomputesUsage ==
    [][\A k \in 1..MaxItems, type \in {"start", "end"}, valueStr \in EditInputs :
          (valueStr.valid /\ HandleValueChange(k, type, valueStr))
          => \A j \in DOMAIN items :
                items[j].id = view.items[k].id
                => /\ j \in DOMAIN items'
                   /\ items[j].status = "success"
                   /\ items'[j].status = "success"
                   /\ (type = "start"
                       => /\ items'[j].result.startReading.value = valueStr.value
                          /\ items'[j].result.endReading = items[j].result.endReading)
                   /\ (type = "end"
                       => /\ items'[j].result.endReading.value = valueStr.value
                          /\ items'[j].result.startReading = items[j].result.startReading)
                   /\ items'[j].result.usage =
                         ToFixed2(Abs(items'[j].result.endReading.value
                                      - items'[j].result.startReading.value))]_vars

\* A success item whose start value was edited from 1.236 to 2.001 (end 0).
C2_Witness ==
    \E k \in DOMAIN items :
       /\ items[k].status = "success"
       /\ items[k].result.startReading.value = 2001
       /\ items[k].result.endReading.value = 0
       /\ items[k].result.usage = 2000

\* C3: when the provider answers k times with a rate-limit error, k up to the
\* retry bound, and then with a reply, the call sends k + 1 requests and returns;
\* a call throws on rate-limit errors alone only after the last attempt; and the
\* item stays analyzing while the call is in flight and is success after it.
C3_TransientFailuresAbsorbed ==
    /\ \A r \in reqs : \A k \in DOMAIN items :
          items[k].id = r.id => items[k].status = "analyzing"
    /\ (/\ settled # Undefined
        /\ settled.errors # <<>>
        /\ AllRateLimit(settled.errors))
       => /\ (settled.reply = Undefined
              => /\ settled.outcome = "threw"
                 /\ Len(settled.errors) = Retries + 1)
          /\ (settled.reply \in ValidReplies
              => /\ Len(settled.errors) <= Retries
                 /\ settled.sent = Len(settled.errors) + 1
                 /\ Len(settled.waits) = Len(settled.errors)
                 /\ settled.outcome = "returned"
                 /\ \A k \in SettledItems : items[k].status = "success")

\* A call that returned after as many rate-limit errors as there are retries.
C3_Witness ==
    /\ settled # Undefined
    /\ settled.outcome = "returned"
    /\ Len(settled.errors) = Retries
    /\ AllRateLimit(settled.errors)
    /\ \E k \in SettledItems : items[k].status = "success"

FixedMessages == {MsgKeyMissing, MsgBusy, MsgModelUnavailable}

\* C4: when every attempt fails with an error the retry loop takes for
\* transient, the message analyzeMeterImage throws is one of the fixed messages.
C4_ExhaustedRetriesClassified ==
    (/\ settled # Undefined
     /\ settled.outcome = "threw"
     /\ settled.reply = Undefined
     /\ Len(settled.errors) = Retries + 1
     /\ AllRateLimit(settled.errors))
    => settled.thrown \in FixedMessages

\* A call that threw the fixed message after the last attempt.
C4_Witness ==
    /\ settled # Undefined
    /\ settled.outcome = "threw"
    /\ Len(settled.errors) = Retries + 1
    /\ AllRateLimit(settled.errors)
    /\ settled.thrown = MsgBusy

\* C5: when the first request fails with an error that is no rate-limit error,
\* the call throws at once: one request sent, no wait made.
C5_NonTransientFailsAtOnce ==
    (/\ settled # Undefined
     /\ settled.errors # <<>>
     /\ settled.errors[1] # "rate-limit")
    => /\ settled.outcome = "threw"
       /\ Len(settled.errors) = 1
       /\ settled.sent = 1
       /\ settled.waits = <<>>

\* A call that threw on a bad-request error.
C5_Witness ==
    /\ settled # Undefined
    /\ settled.errors = <<"bad-request">>
    /\ settled.outcome = "threw"
    /\ settled.thrown = "Invalid argument"
    /\ settled.sent = 1

StatusEdges ==
    { <<"idle", "analyzing">>, <<"analyzing", "success">>,
      <<"analyzing", "error">>, <<"error", "analyzing">> }

\* C6: in every step, of the user or of a settlement, an item that stays on the
\* page keeps its status or changes it along idle -> analyzing, analyzing ->
\* success, analyzing -> error or error -> analyzing; a success item keeps it.
C6_StatusTransitions ==
    [][\A j \in DOMAIN items : \A k \in DOMAIN items' :
          items[j].id = items'[k].id
          => \/ items'[k].status = items[j].status
             \/ <<items[j].status, items'[k].status>> \in StatusEdges]_vars

\* An item analyzed a second time, after its first analysis failed, next to an
\* item that reached success.
C6_Witness ==
    \E j \in DOMAIN items, k \in DOMAIN items, r \in reqs :
       /\ items[j].status = "analyzing"
       /\ r.id = items[j].id
       /\ r.rid > Len(items)
       /\ nextId = Len(items)
       /\ items[k].status = "success"

\* C7: no two calls are in flight for one item, and analyzeItem called for an
\* item that is success or analyzing starts no call and changes nothing.
C7_OneRequestPerItem ==
    /\ \A r1 \in reqs, r2 \in reqs : r1.id = r2.id => r1.rid = r2.rid
    /\ \A k \in DOMAIN items :
          items[k].status \in {"success", "analyzing"}
          => AnalyzeEach(<<items[k]>>, items, reqs, nextRid)
                = [items |-> items, reqs |-> reqs, rid |-> nextRid]

\* Two calls in flight for the two items of the page, one of them made after an
\* earlier call for its item had failed.
C7_Witness ==
    /\ Cardinality(reqs) = 2
    /\ nextRid = 3
    /\ nextId = 2
    /\ \A k \in DOMAIN items : items[k].status = "analyzing"

\* C8: the settlement of a call whose item has been removed leaves the items as
\* they were.
C8_SettlementAfterRemoval ==
    [][\A r \in reqs :
          (r.rid \notin {q.rid : q \in reqs'} /\ r.id \notin Ids(items))
          => items' = items]_vars

\* A call returned for an item that is no longer on the page, next to an item
\* that is.
C8_Witness ==
    /\ settled # Undefined
    /\ settled.outcome = "returned"
    /\ settled.id \notin Ids(items)
    /\ items # <<>>

\* C10: an invoice of one item read 694957.7 and 705310.2 at 150 won has usage
\* 10352.50, cost 1552875, tax 155287 and total due 1708162.
C10_WorkedExample ==
    \A inv \in Range(InvoiceData(tenants, items, unitPrice)) :
       (/\ unitPrice = 150
        /\ Len(inv.items) = 1
        /\ inv.items[1].result.startReading.value = 694957700
        /\ inv.items[1].result.endReading.value = 705310200)
       => /\ inv.items[1].result.usage = 10352500
          /\ inv.items[1].cost = 1552875
          /\ inv.totalCost = 1552875
          /\ Vat(inv.totalCost) = 155287
          /\ TotalDue(inv.totalCost) = 1708162

\* The invoice of the worked example is on the page.
C10_Witness ==
    \E inv \in Range(InvoiceData(tenants, items, unitPrice)) :
       /\ unitPrice = 150
       /\ Len(inv.items) = 1
       /\ inv.items[1].result.startReading.value = 694957700
       /\ inv.items[1].result.endReading.value = 705310200
       /\ inv.totalCost = 1552875

\* C9: a page opened on a share link shows one tenant with the name of the
\* invoice the link was made of and its meter names in order, and one item per
\* item of the invoice with the same readings, dates and usage, each success,
\* shared and with an empty placeholder file.
C9_ShareRoundTrip ==
    (link # Undefined /\ (isSharedView \/ alert # NoError))
    => /\ alert = NoError
       /\ isSharedView
       /\ Len(tenants) = 1
       /\ tenants[1].name = link.of.tenant.name
       /\ tenants[1].meters =
             [k \in DOMAIN link.of.items |-> link.of.items[k].meterName]
       /\ Len(items) = Len(link.of.items)
       /\ \A k \in DOMAIN items :
             /\ items[k].result = link.of.items[k].result
             /\ items[k].status = "success"
             /\ items[k].isShared
             /\ items[k].file.size = 0

\* A page opened on the link of a two-item invoice, with the sender's tenant
\* name and meter names.
C9_Witness ==
    /\ link # Undefined
    /\ isSharedView
    /\ Len(items) = 2
    /\ tenants[1].name = link.of.tenant.name
    /\ tenants[1].meters = [k \in DOMAIN link.of.items |-> link.of.items[k].meterName]
    /\ \A k \in DOMAIN items : items[k].result = link.of.items[k].result

\* Messages of analyzeMeterImage when compressImage rejects
CompressFailures == {"", "Canvas context failed"}

C13_AtMostThreeRequests ==
    /\ \A r \in reqs : r.sent <= 3
    /\ (settled # Undefined => settled.sent <= 3)

\* A call that has sent its third request.
C13_Witness == \E r \in reqs : r.sent = 3 /\ r.pc = "call"

\* C14: a call whose first error marks the provider as overloaded waits and
\* sends again, and throws on such errors alone only after the last attempt.
C14_OverloadedIsRetried ==
    (/\ settled # Undefined
     /\ settled.errors # <<>>
     /\ settled.errors[1] = "overloaded")
    => /\ settled.waits # <<>>
       /\ settled.sent > 1

\* A call settled after the provider answered that it is overloaded.
C14_Witness ==
    /\ settled # Undefined
    /\ settled.errors = <<"overloaded">>
    /\ settled.outcome = "threw"
    /\ settled.sent = 1

\* C15: a call whose reply is empty, is no JSON, or lacks a reading or the
\* number of a reading throws, and its item ends in error.
C15_MalformedReplyFails ==
    (/\ settled # Undefined
     /\ settled.reply \in MalformedReplies)
    => /\ settled.outcome = "threw"
       /\ \A k \in SettledItems : items[k].status = "error"

\* A call that threw on a reply that is no JSON, its item in error.
C15_Witness ==
    /\ settled # Undefined
    /\ settled.reply = [text |-> "notjson"]
    /\ settled.thrown = "AI response was not valid JSON."
    /\ settled.sent = Len(settled.errors) + 1
    /\ \E k \in SettledItems : items[k].status = "error"

\* C11: every item that carries a result has usage = |end - start| rounded to
\* two decimals (NaN when a reading is NaN).
C11_UsageFollowsReadings ==
    \A k \in DOMAIN items :
       items[k].result # Undefined
       => LET s == items[k].result.startReading.value
              e == items[k].result.endReading.value
          IN  IF IsNaN(s) \/ IsNaN(e) THEN IsNaN(items[k].result.usage)
              ELSE items[k].result.usage = ToFixed2(Abs(e - s))

\* A page opened on a link whose usage agrees with its readings.
C11_Witness ==
    /\ isSharedView
    /\ Len(items) = 1
    /\ items[1].result.startReading.value = 0
    /\ items[1].result.endReading.value = 1334
    /\ items[1].result.usage = 1330

\* C17: on a page opened on a share link, the evidence image of each item of
\* the invoice is the thumbnail its payload item carried, and none when it
\* carried none.
C17_ThumbnailIsEvidence ==
    (link # Undefined /\ isSharedView)
    => LET invoices == InvoiceData(tenants, items, unitPrice)
       IN  /\ Len(invoices) = 1
           /\ \A k \in DOMAIN link.url.i :
                 EvidencePreview(invoices[1].items[k])
                    = IF "img" \in DOMAIN link.url.i[k] /\ link.url.i[k].img # <<>>
                      THEN ThumbnailBase64
                      ELSE <<>>

\* A page opened on a link without thumbnails: no evidence image.
C17_Witness ==
    /\ link # Undefined
    /\ isSharedView
    /\ \A k \in DOMAIN link.url.i : "img" \notin DOMAIN link.url.i[k]
    /\ \A k \in DOMAIN items :
          EvidencePreview(InvoiceData(tenants, items, unitPrice)[1].items[k]) = <<>>

\* Items that belong into the invoice of tenant t
AssignedTo(t) ==
    {k \in DOMAIN items :
        /\ items[k].status = "success"
        /\ items[k].result # Undefined
        /\ items[k].assignment.tenantId = tenants[t].id}

RECURSIVE SumOfUsage(_)
SumOfUsage(ks) ==
    IF ks = {} THEN 0
    ELSE LET k == CHOOSE x \in ks : TRUE
         IN  items[k].result.usage + SumOfUsage(ks \ {k})

RECURSIVE SumOfCost(_)
SumOfCost(ks) ==
    IF ks = {} THEN 0
    ELSE LET k == CHOOSE x \in ks : TRUE
         IN  (items[k].result.usage * unitPrice) \div 1000 + SumOfCost(ks \ {k})

\* C16: invoiceData has one entry for each tenant with a success item assigned
\* to it and none for another; the entry lists those items in their order, each
\* with cost floor(usage x unitPrice), and the sums of their usages and costs.
C16_InvoiceGroupsByTenant ==
    LET invoices == InvoiceData(tenants, items, unitPrice)
    IN  /\ \A t \in DOMAIN tenants :
              Cardinality({j \in DOMAIN invoices : invoices[j].tenant = tenants[t]})
                 = IF AssignedTo(t) # {} THEN 1 ELSE 0
        /\ \A j \in DOMAIN invoices :
              \E t \in DOMAIN tenants :
                 /\ invoices[j].tenant = tenants[t]
                 /\ Len(invoices[j].items) = Cardinality(AssignedTo(t))
                 /\ \A a \in DOMAIN invoices[j].items :
                       \E k \in AssignedTo(t) :
                          /\ Cardinality({x \in AssignedTo(t) : x < k}) = a - 1
                          /\ invoices[j].items[a].result = items[k].result
                          /\ invoices[j].items[a].meterName = items[k].assignment.meterName
                          /\ invoices[j].items[a].file = items[k].file
                          /\ invoices[j].items[a].cost
                                = (items[k].result.usage * unitPrice) \div 1000
                 /\ invoices[j].totalUsage = SumOfUsage(AssignedTo(t))
                 /\ invoices[j].totalCost = SumOfCost(AssignedTo(t))

\* Two invoices at once, one of them of a usage whose cost is no whole number
\* before the floor.
C16_Witness ==
    LET invoices == InvoiceData(tenants, items, unitPrice)
    IN  /\ Len(invoices) = 2
        /\ invoices[1].totalCost = 184
        /\ invoices[2].totalCost = 186

\* C18: the tenantId of every item is empty or the id of a tenant of the list.
C18_AssignmentRefersToTenant ==
    \A k \in DOMAIN items :
       \/ items[k].assignment.tenantId = ""
       \/ \E t \in DOMAIN tenants : tenants[t].id = items[k].assignment.tenantId

\* An item assigned to the second company, the first company removed.
C18_Witness ==
    /\ Len(tenants) = 2
    /\ \E k \in DOMAIN items : items[k].assignment.tenantId = tenants[1].id
    /\ tenants[1].id = DEFAULT_TENANTS[2].id

\* C19: the longer side of the canvas compressImage draws on is at most 1024,
\* that of createThumbnail at most 120, whatever the size of the image.
C19_CanvasWithinMaxSize ==
    image.step = "onload"
    => /\ image.canvas.width <= MAX_SIZE(image.fn)
       /\ image.canvas.height <= MAX_SIZE(image.fn)

\* An image wider than high and wider than the limit, scaled down to it.
C19_Witness ==
    /\ image.step = "onload"
    /\ image.width = 2048 /\ image.height = 1025
    /\ image.canvas = [width |-> MAX_SIZE(image.fn), height |-> Round(1025 * MAX_SIZE(image.fn), 2048)]

\* C20: when the promise of compressImage or createThumbnail has settled, every
\* object URL the call created has been revoked.
C20_ObjectUrlsRevoked ==
    image.settled # "pending" => image.created \subseteq image.revoked

\* compressImage rejected on an image that does not decode, its URL revoked.
C20_Witness ==
    /\ image.fn = "compressImage"
    /\ image.step = "onerror"
    /\ image.settled = "rejected"
    /\ image.created = {ObjectUrl}
    /\ image.revoked = {ObjectUrl}

\* C21: handleAnalyzeAll starts one analysis for each item that is idle or
\* error on the page it is clicked on and none for another item, and when
\* isAnalyzingAll returns to false every one of those analyses has settled and
\* none of those items is analyzing.
C21_AnalyzeAllAwaitsItsItems ==
    [][ /\ (batch = {} /\ batch' # {})
           => /\ {r.id : r \in reqs' \ reqs}
                 = {view.items[k].id : k \in {j \in DOMAIN view.items :
                        view.items[j].status \in {"idle", "error"}}}
              /\ Cardinality(reqs' \ reqs)
                 = Cardinality({j \in DOMAIN view.items :
                        view.items[j].status \in {"idle", "error"}})
              /\ batch' = {r.rid : r \in reqs' \ reqs}
        /\ (isAnalyzingAll /\ ~isAnalyzingAll')
           => /\ batch' = {}
              /\ \A r \in reqs' : r.rid \notin batch
              /\ \A k \in DOMAIN items' :
                    items'[k].id \in started => items'[k].status # "analyzing"
      ]_vars

\* Of the two analyses handleAnalyzeAll started one has settled and the other
\* is in flight; isAnalyzingAll is still true.
C21_Witness ==
    /\ isAnalyzingAll
    /\ Cardinality(started) = 2
    /\ Cardinality(batch) = 1
    /\ Cardinality({k \in DOMAIN items : items[k].status = "analyzing"}) = 1
    /\ \E r \in reqs : r.rid \in batch

\* C22: the settlement of an analysis changes the status, result and error
\* of the item with its id and nothing else: the other items, the order and
\* number of the items, the tenants and the unit price stay as they are.
C22_SettlementTouchesOneItem ==
    [][ (/\ settled' # Undefined
         /\ \E r \in reqs : r.rid = settled'.rid
         /\ \A r \in reqs' : r.rid # settled'.rid)
        => /\ tenants' = tenants
           /\ unitPrice' = unitPrice
           /\ DOMAIN items' = DOMAIN items
           /\ \A k \in DOMAIN items :
                 IF items[k].id = settled'.id
                 THEN items'[k] = [items[k] EXCEPT !.status = items'[k].status,
                                                   !.result = items'[k].result,
                                                   !.error = items'[k].error]
                 ELSE items'[k] = items[k]
      ]_vars

\* A failed analysis has settled while the other item is still being analyzed.
C22_Witness ==
    /\ settled # Undefined
    /\ settled.outcome = "threw"
    /\ Len(items) = 2
    /\ \E k \in DOMAIN items : items[k].id = settled.id /\ items[k].status = "error"
    /\ \E k \in DOMAIN items : items[k].id # settled.id /\ items[k].status = "analyzing"

\* What analyzeMeterImage may return or throw in Spec
Outcomes ==
    {[outcome |-> "returned", thrown |-> NoError, result |-> ParseReply(reply).result] :
        reply \in {x \in BriefReplies : ParseReply(x).ok}}
    \cup {[outcome |-> "threw", thrown |-> MapError(error)] : error \in BriefErrors}
    \cup {[outcome |-> "threw", thrown |-> ""]}

\* The setItems of analyzeItem after its await, on the list it is applied to
ApplyOutcome(its, id, o) ==
    IF o.outcome = "returned"
    THEN SettleSuccess(its, id, o.result)
    ELSE SettleError(its, id, o.thrown)

\* The item of a list that has the id
HasOutcome(its, id, o) ==
    \A k \in DOMAIN its :
       its[k].id = id
       => IF o.outcome = "returned"
          THEN its[k].status = "success" /\ its[k].result = o.result
          ELSE its[k].status = "error"
               /\ its[k].error = (IF o.thrown = "" THEN "Analysis failed" ELSE o.thrown)

\* C23: the requests in flight are of different items; whatever they settle
\* with, both orders of two settlements give the same list, which holds both
\* outcomes; a settlement and an edit or assignment of another item made in
\* between give the same list in both orders; and each settlement is applied to
\* the list as it is when the request settles.
C23_SettlementsCommute ==
    /\ [](\A r1 \in reqs, r2 \in reqs :
            r1 # r2
            => /\ r1.id # r2.id
               /\ \A o1 \in Outcomes, o2 \in Outcomes :
                     LET a == ApplyOutcome(ApplyOutcome(items, r1.id, o1), r2.id, o2)
                         b == ApplyOutcome(ApplyOutcome(items, r2.id, o2), r1.id, o1)
                     IN  a = b /\ HasOutcome(a, r1.id, o1) /\ HasOutcome(a, r2.id, o2))
    /\ [](\A r \in reqs, o \in Outcomes, k \in DOMAIN items :
            (items[k].status = "success" /\ items[k].result # Undefined)
            => /\ items[k].id # r.id
               /\ \A type \in {"start", "end"} :
                     LET e == EditedResult(items[k].result, type, 2001)
                     IN  ApplyOutcome(UpdateResult(items, items[k].id, e), r.id, o)
                         = UpdateResult(ApplyOutcome(items, r.id, o), items[k].id, e)
               /\ LET t == [tenantId |-> DEFAULT_TENANTS[1].id, meterName |-> <<>>]
                  IN  ApplyOutcome(UpdateAssignment(items, items[k].id, t), r.id, o)
                      = UpdateAssignment(ApplyOutcome(items, r.id, o), items[k].id, t))
    /\ [][ (/\ settled' # Undefined
            /\ \E r \in reqs : r.rid = settled'.rid
            /\ \A r \in reqs' : r.rid # settled'.rid)
           => /\ items' = ApplyOutcome(items, settled'.id,
                             IF settled'.outcome = "returned"
                             THEN [outcome |-> "returned", thrown |-> NoError,
                                   result |-> ParseReply(settled'.reply).result]
                             ELSE [outcome |-> "threw", thrown |-> settled'.thrown])
              /\ HasOutcome(items', settled'.id,
                            IF settled'.outcome = "returned"
                            THEN [outcome |-> "returned", thrown |-> NoError,
                                  result |-> ParseReply(settled'.reply).result]
                            ELSE [outcome |-> "threw", thrown |-> settled'.thrown])
         ]_vars

\* Of two requests in flight one has settled with a result, which is in the
\* list, while the other is still in flight.
C23_Witness ==
    /\ Len(items) = 2
    /\ Cardinality(reqs) = 1
    /\ settled # Undefined
    /\ settled.outcome = "returned"
    /\ \E k \in DOMAIN items :
          /\ items[k].id = settled.id
          /\ items[k].status = "success"
          /\ items[k].result = ParseReply(settled.reply).result
    /\ \E k \in DOMAIN items, r \in reqs :
          items[k].id = r.id /\ r.id # settled.id /\ items[k].status = "analyzing"

\* The waits of an invocation are initialDelay, twice that, and so on
Backoff(waits) == \A k \in DOMAIN waits : waits[k] = InitialDelay * 2 ^ (k - 1)

\* C24: an invocation of generateContentWithRetry has one attempt or one wait
\* under way at a time; the wait before the k-th retry is initialDelay x 2^(k-1);
\* no wait comes before the first attempt and none after the last failed one.
C24_ExponentialBackoff ==
    /\ \A r \in reqs :
          /\ Backoff(r.waits)
          /\ Len(r.waits) <= Retries
          /\ r.pc = "compress" => r.sent = 0 /\ r.waits = <<>>
          /\ r.pc = "call" => r.sent = Len(r.waits) + 1
          /\ r.pc = "wait" => r.sent = Len(r.waits)
    /\ settled # Undefined
       => /\ Backoff(settled.waits)
          /\ settled.sent = 0 => settled.waits = <<>>
          /\ settled.sent > 0 => settled.sent = Len(settled.waits) + 1

\* An invocation that waited 2 s, 4 s and 8 s and failed on its fourth attempt.
C24_Witness ==
    /\ settled # Undefined
    /\ settled.outcome = "threw"
    /\ settled.waits = <<2000, 4000, 8000>>
    /\ settled.sent = 4

\* C25: an item with status success has a result, an item with status error
\* has an error message that is not empty, and an item that is being analyzed
\* has no error message.
C25_StatusFitsFields ==
    \A k \in DOMAIN items :
       /\ items[k].status = "success" => items[k].result # Undefined
       /\ items[k].status = "error" => items[k].error # NoError /\ items[k].error # ""
       /\ items[k].status = "analyzing" => items[k].error = NoError

\* The only item of the page failed and is analyzed again by Retry Analysis.
C25_Witness ==
    /\ nextId = 1
    /\ Len(items) = 1
    /\ items[1].status = "analyzing"
    /\ items[1].error = NoError
    /\ \E r \in reqs : r.id = items[1].id /\ r.rid = 2

\* C26: on every invoice Total Due is Supply Value plus VAT:
\* floor(totalCost x 1.1) = totalCost + floor(totalCost x 0.1).
C26_TotalDueIsSupplyPlusVat ==
    \A inv \in Range(InvoiceData(tenants, items, unitPrice)) :
       TotalDue(inv.totalCost) = Plus(inv.totalCost, Vat(inv.totalCost))

\* An invoice of 110 kWh and 1.23 kWh at 150 won: supply value 16684, VAT 1668,
\* total due 18352.
C26_Witness ==
    \E inv \in Range(InvoiceData(tenants, items, unitPrice)) :
       /\ unitPrice = 150
       /\ inv.totalCost = 16684
       /\ Vat(inv.totalCost) = 1668
       /\ TotalDue(inv.totalCost) = 18352

\* C27: the amount shown on each row of an invoice is the cost of the item
\* that invoiceData adds into totalCost, so that the Subtotal is the sum of
\* the amounts of the rows.
C27_RowAmountIsItemCost ==
    \A inv \in Range(InvoiceData(tenants, items, unitPrice)) :
       \A k \in DOMAIN inv.items :
          ~IsNaN(inv.items[k].cost)
          => RowAmount(inv.items[k], unitPrice) = inv.items[k].cost * 1000

\* An invoice whose row of 1.24 kWh at 150 won shows 186, the cost of the item.
C27_Witness ==
    \E inv \in Range(InvoiceData(tenants, items, unitPrice)) :
       /\ unitPrice = 150
       /\ Len(inv.items) = 1
       /\ inv.items[1].result.usage = 1240
       /\ inv.items[1].cost = 186
       /\ RowAmount(inv.items[1], unitPrice) = 186000

\* C28: the invoice of a page opened on a share link has the unit price, the
\* total usage and the total cost of the invoice the link was made of; the unit
\* price of that invoice is the p of the link's payload.
C28_SharedInvoiceKeepsTotals ==
    (link # Undefined /\ isSharedView)
    => LET invoices == InvoiceData(tenants, items, unitPrice)
       IN  /\ Len(invoices) = 1
           /\ unitPrice = link.url.p
           /\ invoices[1].totalUsage = link.of.totalUsage
           /\ invoices[1].totalCost = link.of.totalCost

\* A page opened on a link made at 1 won, showing two items at that price.
C28_Witness ==
    /\ link # Undefined
    /\ isSharedView
    /\ link.url.p = 1
    /\ unitPrice = 1
    /\ Len(items) = 2
    /\ InvoiceData(tenants, items, unitPrice)[1].totalCost = link.of.totalCost

\* C29: a page opened on a share parameter that is no JSON text or has no
\* item list reports 'Invalid shared link.' and is otherwise as after a normal
\* start: the default tenants, unit price 150, no items, no shared view, the
\* analysis tab.
C29_UnusableLinkLeavesStart ==
    [][ (link # Undefined /\ (NotJson(link.url) \/ "i" \notin DOMAIN link.url))
        => /\ alert' = "Invalid shared link."
           /\ tenants' = DEFAULT_TENANTS
           /\ unitPrice' = DefaultUnitPrice
           /\ items' = <<>>
           /\ ~isSharedView'
           /\ activeTab' = "analysis"
      ]_vars

\* A page opened on a share parameter that is no JSON text.
C29_Witness ==
    /\ link # Undefined
    /\ NotJson(link.url)
    /\ alert = "Invalid shared link."
    /\ tenants = DEFAULT_TENANTS
    /\ unitPrice = DefaultUnitPrice
    /\ items = <<>>
    /\ ~isSharedView

\* C30: while the Invoice component is shown, isProcessing is true exactly
\* when an export operation (PDF download or card) is in flight.
C30_BusyWhileExporting ==
    activeTab = "invoice" => (isProcessing <=> exports # {})

\* The landlord's card is being made: the flag is true, one operation in flight.
C30_Witness ==
    /\ activeTab = "invoice"
    /\ ~isSharedView
    /\ isProcessing
    /\ \E x \in exports : x.op = "card" /\ ~x.unmounted
    /\ Cardinality(exports) = 1

====
